---- MODULE Spec2Model ----
(***************************************************************************)
(* petfinder-sdk: the chainable Query descriptor, its request lifecycle    *)
(* (build -> cache check -> send -> 401 refresh and retry -> cache write), *)
(* the ResponseCache / FileCache expiry policy, the animal parameter       *)
(* validator and AnimalsQuery.search, as a state machine.                  *)
(*                                                                         *)
(* Conventions.  A Python dict is a sequence of <<key, value>> pairs with  *)
(* distinct keys, in insertion order.  A Python value is a tagged tuple    *)
(* (StrV, IntV, ListV, None).  A URL path is the sequence of its segments:    *)
(* <<"v2", "types", "dog">> is "/v2/types/dog".  Time is counted in ticks  *)
(* of 1/TicksPerSecond second, so that a float clock (time.time) and an    *)
(* int-truncated mtime differ.                                             *)
(***************************************************************************)
EXTENDS Integers, Sequences, FiniteSets, TLC

(***************************************************************************)
(* Bounds of the model                                                     *)
(***************************************************************************)
\* queries built in one behaviour of Spec (the root query and the ones
\* derived from it), and in one behaviour of ChainSpec
MaxQueries == 2
MaxChain == 3
\* the per-call counters (sends, refreshes, cache writes, recursion depth)
\* saturate here
MaxCount == 3
\* clock advances in one behaviour
MaxTicks == 2
\* calls of execute() / search() in one behaviour
MaxCalls == 2
\* sub-second resolution of the clock
TicksPerSecond == 2

(***************************************************************************)
(* Program constants                                                       *)
(***************************************************************************)
\* ResponseCache.__init__: time_to_live: int = 3600
DefaultTimeToLive == 3600
\* AnimalQueryParams.limit: conint(gt=0, le=100) = 100
MaxLimit == 100

(***************************************************************************)
(* Python values                                                           *)
(***************************************************************************)
None == <<"none">>
\* a str is the sequence of its pieces, so that ",".join can build one
StrV(s) == <<"str", IF s = "" THEN <<>> ELSE <<s>> >>
IntV(n) == <<"int", n>>
ListV(l) == <<"list", l>>

IsList(v) == v[1] = "list"
IsInt(v) == v[1] = "int"

\* bool(v): None, 0, "" and [] are falsy
Truthy(v) ==
    CASE v[1] = "none" -> FALSE
      [] v[1] = "int" -> v[2] # 0
      [] OTHER -> v[2] # <<>>

\* str.lower() on the strings of the model
Lower(s) ==
    CASE s = "Pug" -> "pug"
      [] s = "Black" -> "black"
      [] s = "White" -> "white"
      [] s = "Siamese" -> "siamese"
      [] s = "Short" -> "short"
      [] s = "Male" -> "male"
      [] s = "Female" -> "female"
      [] OTHER -> s

\* ",".join(l), as the pieces of the joined str
RECURSIVE Join(_)
Join(l) ==
    IF l = <<>> THEN <<>>
    ELSE IF Len(l) = 1 THEN <<l[1]>>
    ELSE <<l[1], ",">> \o Join(Tail(l))

(***************************************************************************)
(* Python dicts: sequences of <<key, value>> with distinct keys            *)
(***************************************************************************)
Keys(d) == {d[i][1] : i \in DOMAIN d}

\* d.get(k)
Get(d, k) ==
    IF k \in Keys(d)
    THEN d[CHOOSE i \in DOMAIN d : d[i][1] = k][2]
    ELSE None

\* d[k] = v: an existing key keeps its position, a new key goes last
SetItem(d, k, v) ==
    IF k \in Keys(d)
    THEN [i \in DOMAIN d |-> IF d[i][1] = k THEN <<k, v>> ELSE d[i]]
    ELSE Append(d, <<k, v>>)

\* {**a, **b}
RECURSIVE Merge(_, _)
Merge(a, b) ==
    IF b = <<>> THEN a
    ELSE Merge(SetItem(a, b[1][1], b[1][2]), Tail(b))

\* the dict as a mapping, insertion order forgotten
AsMap(d) == [k \in Keys(d) |-> Get(d, k)]

(***************************************************************************)
(* Vocabulary: the enums and the reference data (StaticData)               *)
(***************************************************************************)
\* the categories the client populates (for c in list(Category))
Categories == {"dog", "cat"}

SortDistance == "distance"
SortReverseDistance == "-distance"

\* Response bodies.  A body (response.text) is a JSON document, named by a
\* pair <<kind, name>>; json.loads gives the object it denotes.
TypesText(c) == <<"types", c>>
BreedsText(c) == <<"breeds", c>>
AnimalsTexts == {<<"animals", "A">>, <<"animals", "B">>}
ErrorText == <<"error", "detail">>

\* json.loads(text) / response.json()
Loads(text) == <<"obj", text>>

\* results["animals"] of an animals document
AnimalsOf(text) ==
    IF text = <<"animals", "A">> THEN <<"a1", "a2">> ELSE <<"b1">>

\* types_response["type"] of a types/{c} document
TypeOf(text) ==
    [coats |-> <<"Short">>,
     colors |-> IF text[2] = "dog" THEN <<"Black">> ELSE <<"Black", "white">>,
     genders |-> <<"Male", "Female">>]

\* breeds_response["breeds"] of a types/{c}/breeds document
BreedsOf(text) ==
    IF text[2] = "dog" THEN << [name |-> "Pug"] >> ELSE << [name |-> "Siamese"] >>

\* a variant that keeps the values as the API writes them
category_data_as_written(types_text, breeds_text) ==
    [breeds |-> {BreedsOf(breeds_text)[i].name : i \in DOMAIN BreedsOf(breeds_text)},
     coats |-> {TypeOf(types_text).coats[i] : i \in DOMAIN TypeOf(types_text).coats},
     colors |-> {TypeOf(types_text).colors[i] : i \in DOMAIN TypeOf(types_text).colors},
     genders |-> {TypeOf(types_text).genders[i] :
                    i \in DOMAIN TypeOf(types_text).genders}]

\* CategoryData(...) of _initialize_static_data: every value lowercased
CategoryData(types_text, breeds_text) ==
    [breeds |-> {Lower(BreedsOf(breeds_text)[i].name) :
                    i \in DOMAIN BreedsOf(breeds_text)},
     coats |-> {Lower(TypeOf(types_text).coats[i]) :
                    i \in DOMAIN TypeOf(types_text).coats},
     colors |-> {Lower(TypeOf(types_text).colors[i]) :
                    i \in DOMAIN TypeOf(types_text).colors},
     genders |-> {Lower(TypeOf(types_text).genders[i]) :
                    i \in DOMAIN TypeOf(types_text).genders}]

\* StaticData._store as _initialize_static_data leaves it
PopulatedStore ==
    [c \in Categories |-> CategoryData(TypesText(c), BreedsText(c))]

\* StaticData.get_breeds / get_colors: self._store[k].<field>; KeyError when
\* k was never populated
HasCategory(sd, k) == k \in DOMAIN sd
get_breeds(sd, k) == sd[k].breeds
get_colors(sd, k) == sd[k].colors

(***************************************************************************)
(* AnimalQueryParams: the validator                                        *)
(***************************************************************************)
\* the fields in declaration order
FieldOrder ==
    <<"type", "breed", "size", "gender", "age", "color", "coat",
      "organization", "name", "location", "distance", "status", "sort",
      "limit", "page">>

\* the declared defaults (None where the field has none)
FieldDefault(k) ==
    CASE k = "status" -> StrV("adoptable")
      [] k = "sort" -> StrV("recent")
      [] k = "limit" -> IntV(MaxLimit)
      [] k = "page" -> IntV(1)
      [] OTHER -> None

NoError == [type |-> "ok", cause |-> "", field |-> ""]
Raise(t, c, f) == [type |-> t, cause |-> c, field |-> f]

\* a variant that compares the choices as they are written
some_not_in_as_written(l, valid) == \E i \in DOMAIN l : l[i] \notin valid

\* some element of the list, lowercased, is not in the valid set
SomeNotIn(l, valid) == \E i \in DOMAIN l : Lower(l[i]) \notin valid

\* a variant that runs the categorical checks before the dependency checks
categoricals_before_dependencies(values, sd) ==
    LET location == Get(values, "location")
        distance == Get(values, "distance")
        sort == Get(values, "sort")
        type_ == Get(values, "type")
        breed == Get(values, "breed")
        color == Get(values, "color")
    IN  IF Truthy(type_) /\ Truthy(breed) /\ ~HasCategory(sd, type_[2][1])
        THEN Raise("KeyError", "KeyError", "breed")
        ELSE IF Truthy(type_) /\ Truthy(breed)
                /\ SomeNotIn(breed[2], get_breeds(sd, type_[2][1]))
        THEN Raise("ValidationError", "InvalidChoice", "breed")
        ELSE IF Truthy(type_) /\ Truthy(color) /\ ~HasCategory(sd, type_[2][1])
        THEN Raise("KeyError", "KeyError", "color")
        ELSE IF Truthy(type_) /\ Truthy(color)
                /\ SomeNotIn(color[2], get_colors(sd, type_[2][1]))
        THEN Raise("ValidationError", "InvalidChoice", "color")
        ELSE IF location = None /\ Truthy(distance)
        THEN Raise("ValidationError", "MissingDependency", "distance")
        ELSE IF location = None
                /\ sort \in {StrV(SortDistance), StrV(SortReverseDistance)}
        THEN Raise("ValidationError", "MissingDependency", "sort")
        ELSE NoError

\* the root validator (pre=True): dependency checks first, then the
\* categorical checks when a type is set.  An exception raised in it reaches
\* the caller inside pydantic's ValidationError (a KeyError passes unwrapped).
check_dependencies_and_categoricals(values, sd) ==
    LET location == Get(values, "location")
        distance == Get(values, "distance")
        sort == Get(values, "sort")
        type_ == Get(values, "type")
        breed == Get(values, "breed")
        color == Get(values, "color")
    IN  IF location = None /\ Truthy(distance)
        THEN Raise("ValidationError", "MissingDependency", "distance")
        ELSE IF location = None
                /\ sort \in {StrV(SortDistance), StrV(SortReverseDistance)}
        THEN Raise("ValidationError", "MissingDependency", "sort")
        ELSE IF ~Truthy(type_) THEN NoError
        ELSE IF Truthy(breed) /\ ~HasCategory(sd, type_[2][1])
        THEN Raise("KeyError", "KeyError", "breed")
        ELSE IF Truthy(breed) /\ SomeNotIn(breed[2], get_breeds(sd, type_[2][1]))
        THEN Raise("ValidationError", "InvalidChoice", "breed")
        ELSE IF Truthy(color) /\ ~HasCategory(sd, type_[2][1])
        THEN Raise("KeyError", "KeyError", "color")
        ELSE IF Truthy(color) /\ SomeNotIn(color[2], get_colors(sd, type_[2][1]))
        THEN Raise("ValidationError", "InvalidChoice", "color")
        ELSE NoError

\* the field constraints of the model class: limit in (0, 100], page >= 1,
\* distance a positive int
FieldErrors(values) ==
    LET limit == Get(values, "limit")
        page == Get(values, "page")
        distance == Get(values, "distance")
    IN  IF limit # None /\ ~(IsInt(limit) /\ limit[2] > 0 /\ limit[2] <= MaxLimit)
        THEN Raise("ValidationError", "InvalidFormat", "limit")
        ELSE IF page # None /\ ~(IsInt(page) /\ page[2] >= 1)
        THEN Raise("ValidationError", "InvalidFormat", "page")
        ELSE IF distance # None /\ ~(IsInt(distance) /\ distance[2] > 0)
        THEN Raise("ValidationError", "InvalidFormat", "distance")
        ELSE NoError

\* a variant of the validation that runs the field constraints alone
validate_fields_only(values, sd) == FieldErrors(values)

\* AnimalQueryParams(__static_data__=sd, **params): the first error, or none
Validate(values, sd) ==
    LET e == check_dependencies_and_categoricals(values, sd)
    IN  IF e # NoError THEN e ELSE FieldErrors(values)

\* a variant that passes every value through
as_query_string_unchanged(v) == v

\* _as_query_string: a list becomes its comma-joined str, the rest passes
_as_query_string(v) == IF IsList(v) THEN <<"str", Join(v[2])>> ELSE v

\* QueryParams.dict(): the fields in declaration order, the defaults filled
\* in, None excluded, each value through _as_query_string
RECURSIVE DictFrom(_, _)
DictFrom(values, fields) ==
    IF fields = <<>> THEN <<>>
    ELSE LET k == fields[1]
             v == IF k \in Keys(values) THEN Get(values, k) ELSE FieldDefault(k)
         IN  (IF v = None THEN <<>> ELSE << <<k, _as_query_string(v)>> >>)
             \o DictFrom(values, Tail(fields))

\* a variant that keeps the fields in the order they were given
dict_in_given_order(values) ==
    DictFrom(values, [i \in DOMAIN values |-> values[i][1]])

QueryParams_dict(values) == DictFrom(values, FieldOrder)

(***************************************************************************)
(* Requests                                                                *)
(***************************************************************************)
\* the path of base_url, "https://api.petfinder.com/v2"
BasePath == <<"v2">>
AnimalsPath == <<"animals">>
TypesPath(c) == <<"types", c>>
BreedsPath(c) == <<"types", c, "breeds">>

\* client.build_request("GET", path, params=params) on a client whose
\* headers are `headers`: the URL path is the base path joined with `path`
build_request(headers, path, params) ==
    [method |-> "GET", path |-> BasePath \o path, params |-> params,
     headers |-> headers]

NoRequest == [method |-> "", path |-> <<>>, params |-> <<>>, headers |-> ""]

\* request.url.raw_path: the path and the query string, parameters in the
\* order of the dict
raw_path(request) == <<request.path, request.params>>

\* s.startswith(prefix), on paths
StartsWith(s, prefix) ==
    Len(s) >= Len(prefix) /\ SubSeq(s, 1, Len(prefix)) = prefix

(***************************************************************************)
(* ResponseCache / FileCache                                               *)
(*   cache: [time_to_live, save_condition, keep_forever, directory]        *)
(*   files: the directory, key -> [text, mtime]                            *)
(***************************************************************************)
\* a variant that keeps nothing forever
keep_forever_nothing(request) == FALSE

\* default_keep_forever_behavior: request.url.path.startswith("/v2/types")
default_keep_forever_behavior(request) ==
    StartsWith(request.path, <<"v2", "types">>)

\* the keep_forever callbacks of the model
KeepForeverCall(name, request) ==
    CASE name = "default" -> default_keep_forever_behavior(request)
      [] OTHER -> FALSE

\* the save_condition callbacks of the model: one that accepts a single body
SaveConditionCall(name, request, response) ==
    CASE name = "only_A" -> response.text = <<"animals", "A">>
      [] OTHER -> FALSE

\* hashlib.md5(...).hexdigest(): one digest per input
Md5(x) == <<"md5", x>>

\* FileCache.as_key
as_key(cache, request) == <<cache.directory, Md5(raw_path(request))>>

\* FileCache.__contains__: os.path.exists(key)
Contains(files_, key) == key \in DOMAIN files_

\* FileCache.get_last_cached_at: int(os.path.getmtime(key)), whole seconds
get_last_cached_at(files_, key) == files_[key].mtime \div TicksPerSecond

\* a variant that expires an entry already when its age equals time_to_live
expired_at_time_to_live(cache, files_, request, t) ==
    IF cache.keep_forever # "None" /\ default_keep_forever_behavior(request)
    THEN FALSE
    ELSE t - (files_[<<cache.directory, <<"md5", <<request.path, request.params>> >> >>].mtime
                \div TicksPerSecond) * TicksPerSecond
            >= cache.time_to_live * TicksPerSecond

\* ResponseCache._cached_value_expired, at clock `t` (ticks):
\* (time.time() - self.get_last_cached_at(key)) > self.time_to_live
_cached_value_expired(cache, files_, request, t) ==
    IF cache.keep_forever # "None" /\ KeepForeverCall(cache.keep_forever, request)
    THEN FALSE
    ELSE t - get_last_cached_at(files_, as_key(cache, request)) * TicksPerSecond
            > cache.time_to_live * TicksPerSecond

\* a variant that caches every response
always_cached(cache, request, response) == TRUE

\* ResponseCache._response_should_be_cached
_response_should_be_cached(cache, request, response) ==
    IF cache.save_condition = "None" THEN TRUE
    ELSE SaveConditionCall(cache.save_condition, request, response)

\* FileCache.__delitem__
DelItem(files_, key) == [k \in DOMAIN files_ \ {key} |-> files_[k]]

\* FileCache.__setitem__ at clock `t`: the file is (re)written, mtime = t
SetFile(files_, key, value, t) ==
    [k \in DOMAIN files_ \cup {key} |->
        IF k = key THEN [text |-> value, mtime |-> t] ELSE files_[k]]

\* a variant that reports every entry absent
has_response_never(cache, files_, request, t) == FALSE

\* ResponseCache.has_response at clock `t`
has_response(cache, files_, request, t) ==
    LET key == as_key(cache, request)
    IN  IF ~Contains(files_, key) THEN FALSE
        ELSE IF _cached_value_expired(cache, files_, request, t) THEN FALSE
        ELSE TRUE

\* the directory after has_response: an entry found expired is deleted
FilesAfterHasResponse(cache, files_, request, t) ==
    LET key == as_key(cache, request)
    IN  IF Contains(files_, key) /\ _cached_value_expired(cache, files_, request, t)
        THEN DelItem(files_, key)
        ELSE files_

\* FileCache.serialize_response_data / deserialize_response_data
serialize_response_data(response) == response.text
deserialize_response_data(serialized) == Loads(serialized)

\* ResponseCache.get_response: self[key] read and deserialized
get_response(cache, files_, request) ==
    deserialize_response_data(files_[as_key(cache, request)].text)

\* the directory after ResponseCache.save_response at clock `t`
FilesAfterSave(cache, files_, request, response, t) ==
    IF _response_should_be_cached(cache, request, response)
    THEN SetFile(files_, as_key(cache, request),
                 serialize_response_data(response), t)
    ELSE files_

(***************************************************************************)
(* State                                                                   *)
(***************************************************************************)
VARIABLES
    response_cache,         \* PetfinderClient.response_cache: "None" or the cache
    async_,                 \* PetfinderClient.async_
    authorization_headers,  \* PetfinderClient._authorization_headers (the token)
    static_data,            \* StaticData._store
    queries,                \* the Query objects, in order of creation
    derived,                \* per query: how it was derived, and the parameters
                            \* its parent had then (history)
    files,                  \* the cache directory: key -> [text, mtime]
    now,                    \* the clock, in ticks
    ticks,                  \* clock advances so far
    calls,                  \* calls of execute() / search() so far
    pc,                     \* per caller: where its execute() stands
    frame,                  \* per caller: the locals of its execute()
    constructor             \* PetfinderClient.__init__: where it stands, and
                            \* the locals of _initialize_static_data

vars == <<response_cache, async_, authorization_headers, static_data, queries,
          derived, files, now, ticks, calls, pc, frame, constructor>>

\* the callers; Spec runs the first one alone
Procs == {1, 2}
MainProcs == {1}

Tokens == {"tokA", "tokB"}

\* saturating increment of a per-call counter
Inc(n) == IF n < MaxCount THEN n + 1 ELSE n

\* the cache configurations a client is built with
TimeToLives == {DefaultTimeToLive}
SaveConditions == {"None", "only_A"}
KeepForevers == {"None", "default"}
Caches ==
    [time_to_live : TimeToLives, save_condition : SaveConditions,
     keep_forever : KeepForevers, directory : {"dir"}]
NoCache ==
    [time_to_live |-> 0, save_condition |-> "None", keep_forever |-> "None",
     directory |-> ""]
HasCache(c) == c.directory # ""

\* the clock advances of the model: half of the default time to live, the
\* default time to live, 4000 seconds, and one tick
Advances ==
    {1} \cup {a * TicksPerSecond :
                a \in {DefaultTimeToLive \div 2, DefaultTimeToLive, 4000}}

NoResponse == [status_code |-> 0, text |-> <<"", "">>]

\* what has_response found (history): whether it ran, whether the key was
\* there, the entry, the clock of the test and its answer
NotChecked ==
    [ran |-> FALSE, present |-> FALSE, text |-> <<"", "">>, mtime |-> 0,
     at |-> 0, hit |-> FALSE]

EmptyFrame ==
    [q |-> 0, op |-> "", depth |-> 0, client |-> "", request |-> NoRequest,
     response |-> NoResponse, exc |-> NoError, status |-> 0, result |-> None,
     from_cache |-> FALSE, sends |-> 0, refreshes |-> 0, writes |-> 0,
     checked |-> NotChecked]

\* Query.__init__ / AnimalsQuery.__init__
NewQueryObject(cls, path, params, qasync, get_client, cache, sd) ==
    [cls |-> cls, path |-> path, params |-> params, async |-> qasync,
     get_client |-> get_client,
     refresh_access_token |-> "client._refresh_access_token",
     response_cache |-> cache,
     static_data |-> sd]

\* the request one types/{c} or types/{c}/breeds query of the bootstrap builds
BootstrapRequest(tok, path) == build_request(tok, path, <<>>)

\* the directory as PetfinderClient.__init__ leaves it at clock 0: with a
\* cache, each bootstrap response the save condition accepts is an entry
ConstructedFiles(cache, tok) ==
    LET reqs == {<<BootstrapRequest(tok, TypesPath(c)), TypesText(c)>> : c \in Categories}
                \cup {<<BootstrapRequest(tok, BreedsPath(c)), BreedsText(c)>> : c \in Categories}
        kept == {rt \in reqs :
                    HasCache(cache) /\ _response_should_be_cached(cache, rt[1],
                        [status_code |-> 200, text |-> rt[2]])}
    IN  [k \in {as_key(cache, rt[1]) : rt \in kept} |->
            [text |-> (CHOOSE rt \in kept : as_key(cache, rt[1]) = k)[2],
             mtime |-> 0]]

\* for c in list(Category): the categories in the order of the enum
CategoryOrder == <<"dog", "cat">>

\* PetfinderClient.__init__ has returned: its locals are gone
Constructed ==
    [pc |-> "done", todo |-> <<>>, types_response |-> None, data |-> <<>>,
     executes |-> 0, sends |-> 0]

\* the state PetfinderClient.__init__ returns in
Init ==
    /\ response_cache \in Caches \cup {NoCache}
    /\ async_ \in BOOLEAN
    /\ authorization_headers = "tokA"
    /\ static_data = PopulatedStore
    /\ queries = << NewQueryObject("AnimalsQuery", AnimalsPath, <<>>, async_,
                        IF async_ THEN "client._async_client" ELSE "client._client",
                        response_cache, "client.static_data") >>
    /\ derived = << [parent |-> 0, args |-> <<>>, by |-> "__init__", base |-> <<>>] >>
    /\ files = ConstructedFiles(response_cache, authorization_headers)
    /\ now = 0
    /\ ticks = 0
    /\ calls = 0
    /\ pc = [p \in Procs |-> "idle"]
    /\ frame = [p \in Procs |-> EmptyFrame]
    /\ constructor = Constructed

(***************************************************************************)
(* Building queries                                                        *)
(***************************************************************************)
\* the keyword arguments the callers chain before they execute: a distance
\* without location, and a breed that is not one of the category
ExecChainArgs ==
    { << <<"distance", IntV(10)>> >>,
      << <<"type", StrV("dog")>>, <<"breed", ListV(<<"poodle">>)>> >> }

\* the keyword arguments of the chains of ChainSpec
ChainArgs ==
    ExecChainArgs \cup
    { << <<"type", StrV("dog")>> >>,
      << <<"type", StrV("cat")>>, <<"age", StrV("baby")>> >>,
      << <<"breed", ListV(<<"Pug">>)>> >>,
      << <<"breed", ListV(<<"poodle">>)>>, <<"location", StrV("NYC")>> >>,
      << <<"page", IntV(2)>> >> }

\* a variant in which the old parameters override the new ones
chain_old_over_new(q, new_query_params) ==
    NewQueryObject(q.cls, q.path, Merge(new_query_params, q.params), q.async,
                   q.get_client, q.response_cache, q.static_data)

\* Query._chain(**new_query_params): a new object of the same class
_chain(q, new_query_params) ==
    NewQueryObject(q.cls, q.path, Merge(q.params, new_query_params), q.async,
                   q.get_client, q.response_cache, q.static_data)

\* a variant that makes every new query synchronous
new_query_sync(q, path, params) ==
    NewQueryObject("Query", path, params, FALSE, "client._client",
                   q.response_cache, q.static_data)

\* Query._new_query(path, **params): a plain Query
_new_query(q, path, params) ==
    NewQueryObject("Query", path, params, q.async, q.get_client,
                   q.response_cache, q.static_data)

\* Building a query reads and writes nothing but the queries, so it commutes
\* with every step of an execution: the queries are built first.
Chain(i, a) ==
    /\ calls = 0
    /\ queries' = Append(queries, _chain(queries[i], a))
    /\ derived' = Append(derived, [parent |-> i, args |-> a, by |-> "_chain",
                                   base |-> queries[i].params])
    /\ UNCHANGED <<constructor, response_cache, async_, authorization_headers, static_data,
                   files, now, ticks, calls, pc, frame>>

NewQuery(i, path) ==
    /\ calls = 0
    /\ queries' = Append(queries, _new_query(queries[i], path, <<>>))
    /\ derived' = Append(derived, [parent |-> i, args |-> <<>>, by |-> "_new_query",
                                   base |-> queries[i].params])
    /\ UNCHANGED <<constructor, response_cache, async_, authorization_headers, static_data,
                   files, now, ticks, calls, pc, frame>>

\* Time passes.  The code reads the clock in has_response (time.time()) and
\* when a file is written (its mtime); between two such reads of one caller
\* lies either an awaited send or the return to the caller, so the clock
\* advances there.
Tick(d) ==
    /\ ticks < MaxTicks
    /\ \A p \in Procs : pc[p] \in {"idle", "await"}
    /\ now' = now + d
    /\ ticks' = ticks + 1
    /\ UNCHANGED <<constructor, response_cache, async_, authorization_headers, static_data,
                   queries, derived, files, calls, pc, frame>>

(***************************************************************************)
(* Query._execute / Query._async_execute, one action per step.  The two    *)
(* methods differ only in awaiting the send; the steps are the same.       *)
(***************************************************************************)
Others == <<constructor, response_cache, async_, authorization_headers,
            static_data, queries, derived, calls>>

\* what the server may answer to a request for `path`
SuccessTexts(path) ==
    IF path = BasePath \o AnimalsPath THEN AnimalsTexts
    ELSE IF Len(path) = 3 THEN {TypesText(path[3])}
    ELSE {BreedsText(path[3])}
ErrorStatuses == {401, 500}

\* the bodies a server sends with a success status
SuccessBodies ==
    AnimalsTexts \cup {TypesText(c) : c \in Categories}
                 \cup {BreedsText(c) : c \in Categories}

\* the callers' inputs: execute(), search() and search(limit=..., startPage=...)
Ops == {"execute", "search", "search_with_arguments"}

\* query.execute() / query.search() is called.  search exists on AnimalsQuery
\* only and takes no argument: a call with arguments is a TypeError before
\* anything runs.
Call(p, i, op) ==
    /\ pc[p] = "idle"
    /\ calls < MaxCalls
    /\ calls' = calls + 1
    /\ op = "execute" \/ queries[i].cls = "AnimalsQuery"
    /\ IF op = "search_with_arguments"
       THEN /\ pc' = [pc EXCEPT ![p] = "done"]
            /\ frame' = [frame EXCEPT ![p] =
                    [EmptyFrame EXCEPT !.q = i, !.op = op,
                                       !.exc = Raise("TypeError", "TypeError", "search")]]
       ELSE /\ pc' = [pc EXCEPT ![p] = "build"]
            /\ frame' = [frame EXCEPT ![p] = [EmptyFrame EXCEPT !.q = i, !.op = op]]
    /\ UNCHANGED <<constructor, response_cache, async_, authorization_headers, static_data,
                   queries, derived, files, now, ticks>>

\* Query._build_request: the parameters of the request, or the error of
\* their validation
RequestParams(q, sd) ==
    IF q.cls = "AnimalsQuery" THEN QueryParams_dict(q.params) ELSE q.params
\* a variant that builds the request without validating
build_without_validation(q, sd) == NoError

BuildError(q, sd) ==
    IF q.cls = "AnimalsQuery" THEN Validate(q.params, sd) ELSE NoError

\* a variant that hands out a client made with the first token
client_of_first_token(headers) == "tokA"

\* PetfinderClient._client / _async_client: a new client whose headers are
\* the authorization headers of the moment
_client(headers) == headers

\* `with self._get_client() as client: request = self._build_request(client)`:
\* a client with the current authorization headers; a validation error is no
\* HTTPStatusError and leaves execute
Build(p) ==
    /\ pc[p] = "build"
    /\ LET q == queries[frame[p].q]
           e == BuildError(q, static_data)
           client == _client(authorization_headers)
       IN  IF e # NoError
           THEN /\ pc' = [pc EXCEPT ![p] = "done"]
                /\ frame' = [frame EXCEPT ![p].client = client,
                                          ![p].exc = e]
           ELSE /\ pc' = [pc EXCEPT ![p] = "check"]
                /\ frame' = [frame EXCEPT ![p].client = client,
                                          ![p].request =
                                build_request(client, q.path,
                                              RequestParams(q, static_data))]
    /\ UNCHANGED <<Others, files, now, ticks>>

\* Query._get_cached_response, the test: no cache, or has_response is false
\* (an expired entry is deleted), goes on to send; otherwise to the read
CheckCache(p) ==
    /\ pc[p] = "check"
    /\ LET q == queries[frame[p].q]
           cache == q.response_cache
           req == frame[p].request
           key == as_key(cache, req)
       IN  IF ~HasCache(cache)
           THEN /\ pc' = [pc EXCEPT ![p] = "send"]
                /\ files' = files
                /\ frame' = frame
           ELSE /\ files' = FilesAfterHasResponse(cache, files, req, now)
                /\ pc' = [pc EXCEPT ![p] =
                        IF has_response(cache, files, req, now) THEN "read" ELSE "send"]
                /\ frame' = [frame EXCEPT ![p].checked =
                        [ran |-> TRUE, present |-> Contains(files, key),
                         text |-> IF Contains(files, key) THEN files[key].text
                                  ELSE <<"", "">>,
                         mtime |-> IF Contains(files, key) THEN files[key].mtime
                                   ELSE 0,
                         at |-> now,
                         hit |-> has_response(cache, files, req, now)]]
    /\ UNCHANGED <<Others, now, ticks>>

\* the value a finished execute hands to its caller: search returns
\* results["animals"] (_format_search_results)
Returned(op, text) ==
    IF op = "search" THEN <<"list", AnimalsOf(Loads(text)[2])>> ELSE Loads(text)

\* Query._get_cached_response, the read: get_response(request), returned
\* by execute when it is not None; open(key) on a missing file raises
\* FileNotFoundError, which leaves execute
ReadCache(p) ==
    /\ pc[p] = "read"
    /\ LET cache == queries[frame[p].q].response_cache
           req == frame[p].request
       IN  IF ~Contains(files, as_key(cache, req))
           THEN /\ pc' = [pc EXCEPT ![p] = "done"]
                /\ frame' = [frame EXCEPT ![p].exc =
                                Raise("FileNotFoundError", "FileNotFoundError", "")]
           ELSE IF get_response(cache, files, req) # None
           THEN /\ pc' = [pc EXCEPT ![p] = "done"]
                /\ frame' = [frame EXCEPT ![p].from_cache = TRUE,
                                ![p].result =
                                    Returned(frame[p].op,
                                             files[as_key(cache, req)].text)]
           ELSE /\ pc' = [pc EXCEPT ![p] = "send"]
                /\ frame' = frame
    /\ UNCHANGED <<Others, files, now, ticks>>

\* client.send(request): the request leaves
Send(p) ==
    /\ pc[p] = "send"
    /\ pc' = [pc EXCEPT ![p] = "await"]
    /\ frame' = [frame EXCEPT ![p].sends = Inc(@)]
    /\ UNCHANGED <<Others, files, now, ticks>>

\* the server answers with a success and a body
ReceiveSuccess(p, text) ==
    /\ pc[p] = "await"
    /\ text \in SuccessTexts(frame[p].request.path)
    /\ pc' = [pc EXCEPT ![p] = "process"]
    /\ frame' = [frame EXCEPT ![p].response = [status_code |-> 200, text |-> text]]
    /\ UNCHANGED <<Others, files, now, ticks>>

\* the server answers with an error status
ReceiveError(p, status) ==
    /\ pc[p] = "await"
    /\ pc' = [pc EXCEPT ![p] = "process"]
    /\ frame' = [frame EXCEPT ![p].response =
                    [status_code |-> status, text |-> ErrorText]]
    /\ UNCHANGED <<Others, files, now, ticks>>

\* the transport fails (a timeout, a connection error): client.send raises
\* an exception that is no HTTPStatusError, and it leaves execute
TransportFailure(p) ==
    /\ pc[p] = "await"
    /\ pc' = [pc EXCEPT ![p] = "done"]
    /\ frame' = [frame EXCEPT ![p].exc =
                    Raise("TransportError", "TransportError", "")]
    /\ UNCHANGED <<Others, files, now, ticks>>

\* a variant in which only a server error raises
only_server_errors(status) == status >= 500

\* response.raise_for_status(): an error status raises HTTPStatusError
IsErrorStatus(status) == status >= 400

\* Query._process_response: raise_for_status, then save_response when a
\* cache is configured, then response.json()
ProcessResponse(p) ==
    /\ pc[p] = "process"
    /\ LET cache == queries[frame[p].q].response_cache
           req == frame[p].request
           resp == frame[p].response
       IN  IF IsErrorStatus(resp.status_code)
           THEN /\ pc' = [pc EXCEPT ![p] = "except"]
                /\ frame' = [frame EXCEPT ![p].exc =
                                Raise("HTTPStatusError", "HTTPStatusError", ""),
                                          ![p].status = resp.status_code]
                /\ files' = files
           ELSE /\ pc' = [pc EXCEPT ![p] = "done"]
                /\ files' = IF HasCache(cache)
                            THEN FilesAfterSave(cache, files, req, resp, now)
                            ELSE files
                /\ frame' = [frame EXCEPT
                        ![p].result = Returned(frame[p].op, resp.text),
                        ![p].writes =
                            IF HasCache(cache)
                               /\ _response_should_be_cached(cache, req, resp)
                            THEN Inc(@) ELSE @]
    /\ UNCHANGED <<Others, now, ticks>>

\* a variant that refreshes and runs again on every error status
retry_on_any_error(status) == status >= 400

\* the status on which execute refreshes the token and runs again
RetryStatus(status) == status = 401

\* `except httpx.HTTPStatusError as e`: on 401 refresh and run again,
\* otherwise raise e
HandleStatusError(p) ==
    /\ pc[p] = "except"
    /\ pc' = [pc EXCEPT ![p] =
                IF RetryStatus(frame[p].status) THEN "refresh" ELSE "done"]
    /\ UNCHANGED <<Others, frame, files, now, ticks>>

\* self._refresh_access_token() succeeds: new authorization headers, and
\* `return self._execute()` (or `return await self._async_execute()`) runs
\* execute again, one level deeper
RefreshToken(p, token) ==
    /\ pc[p] = "refresh"
    /\ authorization_headers' = token
    /\ pc' = [pc EXCEPT ![p] = "build"]
    /\ frame' = [frame EXCEPT ![p].refreshes = Inc(@), ![p].depth = Inc(@),
                              ![p].exc = NoError, ![p].status = 0,
                              ![p].request = NoRequest,
                              ![p].response = NoResponse,
                              ![p].checked = NotChecked]
    /\ UNCHANGED <<constructor, response_cache, async_, static_data, queries, derived,
                   calls, files, now, ticks>>

\* self._refresh_access_token() fails (the token request is refused or the
\* transport fails): its exception leaves the handler and execute
RefreshFailure(p) ==
    /\ pc[p] = "refresh"
    /\ pc' = [pc EXCEPT ![p] = "done"]
    /\ frame' = [frame EXCEPT ![p].refreshes = Inc(@),
                              ![p].exc = Raise("RefreshError", "RefreshError", "")]
    /\ UNCHANGED <<Others, files, now, ticks>>

\* the caller takes the result or the exception
Return(p) ==
    /\ pc[p] = "done"
    /\ pc' = [pc EXCEPT ![p] = "idle"]
    /\ frame' = [frame EXCEPT ![p] = EmptyFrame]
    /\ UNCHANGED <<Others, files, now, ticks>>

\* the paths the callers open with _new_query
NewQueryPaths == {TypesPath("dog")}

Step(p) ==
    \/ \E i \in DOMAIN queries, op \in Ops : Call(p, i, op)
    \/ Build(p)
    \/ CheckCache(p)
    \/ ReadCache(p)
    \/ Send(p)
    \/ \E text \in AnimalsTexts \cup {TypesText(c) : c \in Categories}
                    \cup {BreedsText(c) : c \in Categories} :
            ReceiveSuccess(p, text)
    \/ \E status \in ErrorStatuses : ReceiveError(p, status)
    \/ TransportFailure(p)
    \/ ProcessResponse(p)
    \/ HandleStatusError(p)
    \/ \E token \in Tokens : RefreshToken(p, token)
    \/ RefreshFailure(p)
    \/ Return(p)

Next ==
    \/ \E i \in DOMAIN queries, a \in ExecChainArgs :
            Len(queries) < MaxQueries /\ Chain(i, a)
    \/ \E i \in DOMAIN queries, path \in NewQueryPaths :
            Len(queries) < MaxQueries /\ NewQuery(i, path)
    \/ \E d \in Advances : Tick(d)
    \/ \E p \in MainProcs : Step(p)

\* one caller: its queries, its calls, the server, the cache and the clock
Spec == Init /\ [][Next]_vars

ChainNext ==
    \/ \E i \in DOMAIN queries, a \in ChainArgs :
            Len(queries) < MaxChain /\ Chain(i, a)
    \/ \E i \in DOMAIN queries, path \in NewQueryPaths :
            Len(queries) < MaxChain /\ NewQuery(i, path)

\* the building of queries alone, over more keyword arguments
ChainSpec == Init /\ [][ChainNext]_vars

(***************************************************************************)
(* The cache directory fails.  FileCache reads with open(key) and writes   *)
(* with open(key, "w"); neither call is guarded, in the cache or in        *)
(* Query._get_cached_response / Query._process_response.                   *)
(***************************************************************************)
\* between has_response and get_response the file goes away (the directory
\* is cleaned, another process deletes the entry)
EntryRemoved(p) ==
    /\ pc[p] = "read"
    /\ Contains(files, as_key(queries[frame[p].q].response_cache, frame[p].request))
    /\ files' = DelItem(files, as_key(queries[frame[p].q].response_cache,
                                      frame[p].request))
    /\ UNCHANGED <<Others, now, ticks, pc, frame>>

\* save_response: open(key, "w") raises OSError (the directory is gone or
\* not writable); the exception leaves _process_response and execute
WriteFailure(p) ==
    /\ pc[p] = "process"
    /\ ~IsErrorStatus(frame[p].response.status_code)
    /\ HasCache(queries[frame[p].q].response_cache)
    /\ _response_should_be_cached(queries[frame[p].q].response_cache,
                                  frame[p].request, frame[p].response)
    /\ pc' = [pc EXCEPT ![p] = "done"]
    /\ frame' = [frame EXCEPT ![p].exc = Raise("OSError", "OSError", "")]
    /\ UNCHANGED <<Others, files, now, ticks>>

FaultNext ==
    \/ \E p \in MainProcs : Step(p)
    \/ \E p \in MainProcs : EntryRemoved(p)
    \/ \E p \in MainProcs : WriteFailure(p)

\* one caller and a cache directory that may fail under it
FaultSpec == Init /\ [][FaultNext]_vars

(***************************************************************************)
(* The parameters of animal queries: validation, the wire parameters and   *)
(* the lookups breeds() / colors(), over more keyword arguments.           *)
(***************************************************************************)
\* the keyword arguments of the chains of ParamSpec
ParamArgs ==
    { << <<"distance", IntV(10)>> >>,
      << <<"distance", IntV(0)>> >>,
      << <<"distance", IntV(0)>>, <<"type", StrV("cat")>> >>,
      << <<"sort", StrV(SortDistance)>> >>,
      << <<"sort", StrV(SortReverseDistance)>>, <<"type", StrV("cat")>> >>,
      << <<"sort", StrV("recent")>>, <<"distance", IntV(10)>>,
         <<"location", StrV("NYC")>> >>,
      << <<"location", StrV("NYC")>> >>,
      << <<"type", StrV("dog")>> >>,
      << <<"type", StrV("cat")>>, <<"color", ListV(<<"White">>)>> >>,
      << <<"breed", ListV(<<"Pug">>)>> >>,
      << <<"breed", ListV(<<"pug", "poodle">>)>> >>,
      << <<"color", ListV(<<"Black", "white">>)>> >>,
      << <<"age", ListV(<<"baby", "young">>)>>, <<"name", StrV("Rex")>>,
         <<"breed", ListV(<<>>)>> >> }

\* queries built in one behaviour of ParamSpec
MaxParamQueries == 3

\* AnimalsQuery.breeds / AnimalsQuery.colors: the error or the set
MissingAnimalType(method_call) == Raise("MissingAnimalType", method_call, "type")

\* a variant of breeds() that does not ask for a category
breeds_of_any(q, sd) ==
    [exc |-> NoError, result |-> <<"set", get_breeds(sd, "dog")>>]

breeds(q, sd) ==
    IF ~Truthy(Get(q.params, "type"))
    THEN [exc |-> MissingAnimalType(".breeds()"), result |-> None]
    ELSE IF ~HasCategory(sd, Get(q.params, "type")[2][1])
    THEN [exc |-> Raise("KeyError", "KeyError", "type"), result |-> None]
    ELSE [exc |-> NoError,
          result |-> <<"set", get_breeds(sd, Get(q.params, "type")[2][1])>>]

colors(q, sd) ==
    IF ~Truthy(Get(q.params, "type"))
    THEN [exc |-> MissingAnimalType(".colors()"), result |-> None]
    ELSE IF ~HasCategory(sd, Get(q.params, "type")[2][1])
    THEN [exc |-> Raise("KeyError", "KeyError", "type"), result |-> None]
    ELSE [exc |-> NoError,
          result |-> <<"set", get_colors(sd, Get(q.params, "type")[2][1])>>]

LookupOps == {"breeds", "colors"}

\* query.breeds() / query.colors() is called and returns or raises at once
Lookup(p, i, op) ==
    /\ pc[p] = "idle"
    /\ calls < MaxCalls
    /\ calls' = calls + 1
    /\ queries[i].cls = "AnimalsQuery"
    /\ pc' = [pc EXCEPT ![p] = "done"]
    /\ LET r == IF op = "breeds" THEN breeds(queries[i], static_data)
                ELSE colors(queries[i], static_data)
       IN  frame' = [frame EXCEPT ![p] =
                [EmptyFrame EXCEPT !.q = i, !.op = op, !.exc = r.exc,
                                   !.result = r.result]]
    /\ UNCHANGED <<constructor, response_cache, async_, authorization_headers, static_data,
                   queries, derived, files, now, ticks>>

ParamNext ==
    \/ \E i \in DOMAIN queries, a \in ParamArgs :
            Len(queries) < MaxParamQueries /\ Chain(i, a)
    \/ \E p \in MainProcs, i \in DOMAIN queries : Call(p, i, "execute")
    \/ \E p \in MainProcs, i \in DOMAIN queries, op \in LookupOps :
            Lookup(p, i, op)
    \/ \E p \in MainProcs : Build(p)
    \/ \E p \in MainProcs : CheckCache(p)
    \/ \E p \in MainProcs : Send(p)
    \/ \E p \in MainProcs : Return(p)

\* one caller that builds queries, looks the choices up and executes up to
\* the send
ParamSpec == Init /\ [][ParamNext]_vars

(***************************************************************************)
(* PetfinderClient.__init__: the first token, _initialize_static_data (one *)
(* types/{c} and one types/{c}/breeds query per category, executed one     *)
(* after the other by Query._execute), then the animals query.             *)
(***************************************************************************)
\* the `q` of _initialize_static_data: synchronous whatever the client's mode
BootQuery(cache) ==
    NewQueryObject("Query", <<>>, <<>>, FALSE, "client._client", cache, "None")

\* __init__ is entered: nothing is set but the arguments; the cache
\* directory is new, or holds the entries an earlier client left in it
NewClient ==
    /\ response_cache \in Caches \cup {NoCache}
    /\ async_ \in BOOLEAN
    /\ authorization_headers = ""
    /\ static_data = <<>>
    /\ queries = <<>>
    /\ derived = <<>>
    /\ files \in {ConstructedFiles(NoCache, "tokA"),
                  ConstructedFiles(response_cache, "tokA")}
    /\ now = 0
    /\ ticks = 0
    /\ calls = 0
    /\ pc = [p \in Procs |-> "idle"]
    /\ frame = [p \in Procs |-> EmptyFrame]
    /\ constructor = [pc |-> "token", todo |-> CategoryOrder,
                      types_response |-> None, data |-> <<>>,
                      executes |-> 0, sends |-> 0]

\* self._refresh_access_token() of __init__ succeeds
AcquireToken(token) ==
    /\ constructor.pc = "token"
    /\ authorization_headers' = token
    /\ constructor' = [constructor EXCEPT !.pc = "types"]
    /\ UNCHANGED <<response_cache, async_, static_data, queries, derived,
                   files, now, ticks, calls, pc, frame>>

\* ... or raises: __init__ is left, there is no client
AcquireTokenFailure ==
    /\ constructor.pc = "token"
    /\ constructor' = [constructor EXCEPT !.pc = "failed"]
    /\ UNCHANGED <<response_cache, async_, authorization_headers, static_data,
                   queries, derived, files, now, ticks, calls, pc, frame>>

\* q._new_query(path=f"types/{c}").execute(), then
\* q._new_query(path=f"types/{c}/breeds").execute(): the query is made and
\* its execute is entered
BootstrapCall(p) ==
    /\ constructor.pc \in {"types", "breeds"}
    /\ pc[p] = "idle"
    /\ LET c == constructor.todo[1]
           path == IF constructor.pc = "types" THEN TypesPath(c) ELSE BreedsPath(c)
       IN  /\ queries' = << _new_query(BootQuery(response_cache), path, <<>>) >>
           /\ derived' = << [parent |-> 0, args |-> <<>>, by |-> "_new_query",
                             base |-> <<>>] >>
    /\ pc' = [pc EXCEPT ![p] = "build"]
    /\ frame' = [frame EXCEPT ![p] = [EmptyFrame EXCEPT !.q = 1, !.op = "execute"]]
    /\ constructor' = [constructor EXCEPT
                        !.pc = IF @ = "types" THEN "types_run" ELSE "breeds_run",
                        !.executes = @ + 1]
    /\ UNCHANGED <<response_cache, async_, authorization_headers, static_data,
                   files, now, ticks, calls>>

\* the execute returns to _initialize_static_data: types_response is kept,
\* and with breeds_response data[c] is made; an exception leaves __init__
BootstrapReturn(p) ==
    /\ constructor.pc \in {"types_run", "breeds_run"}
    /\ pc[p] = "done"
    /\ pc' = [pc EXCEPT ![p] = "idle"]
    /\ frame' = [frame EXCEPT ![p] = EmptyFrame]
    /\ queries' = <<>>
    /\ derived' = <<>>
    /\ LET c == constructor.todo[1]
           sent == constructor.sends + frame[p].sends
       IN  constructor' =
            IF frame[p].exc # NoError
            THEN [constructor EXCEPT !.pc = "failed", !.sends = sent]
            ELSE IF constructor.pc = "types_run"
            THEN [constructor EXCEPT !.pc = "breeds", !.sends = sent,
                                     !.types_response = frame[p].result]
            ELSE [constructor EXCEPT
                    !.pc = IF Len(constructor.todo) = 1 THEN "store" ELSE "types",
                    !.sends = sent,
                    !.todo = Tail(@),
                    !.types_response = None,
                    !.data = @ @@ (c :> CategoryData(constructor.types_response[2],
                                                     frame[p].result[2]))]
    /\ UNCHANGED <<response_cache, async_, authorization_headers, static_data,
                   files, now, ticks, calls>>

\* self.static_data = StaticData(data)
StoreData ==
    /\ constructor.pc = "store"
    /\ static_data' = constructor.data
    /\ constructor' = [constructor EXCEPT !.pc = "animals"]
    /\ UNCHANGED <<response_cache, async_, authorization_headers, queries,
                   derived, files, now, ticks, calls, pc, frame>>

\* self.animals = AnimalsQuery(...): __init__ returns
MakeAnimals ==
    /\ constructor.pc = "animals"
    /\ queries' = << NewQueryObject("AnimalsQuery", AnimalsPath, <<>>, async_,
                        IF async_ THEN "client._async_client" ELSE "client._client",
                        response_cache, "client.static_data") >>
    /\ derived' = << [parent |-> 0, args |-> <<>>, by |-> "__init__", base |-> <<>>] >>
    /\ constructor' = Constructed
    /\ UNCHANGED <<response_cache, async_, authorization_headers, static_data,
                   files, now, ticks, calls, pc, frame>>

\* the steps of an execute that is under way
Execution(p) ==
    \/ Build(p)
    \/ CheckCache(p)
    \/ ReadCache(p)
    \/ Send(p)
    \/ \E text \in {TypesText(c) : c \in Categories}
                    \cup {BreedsText(c) : c \in Categories} \cup AnimalsTexts :
            ReceiveSuccess(p, text)
    \/ \E status \in ErrorStatuses : ReceiveError(p, status)
    \/ TransportFailure(p)
    \/ ProcessResponse(p)
    \/ HandleStatusError(p)
    \/ \E token \in Tokens : RefreshToken(p, token)
    \/ RefreshFailure(p)

\* what the caller does with the client once it has it
UseClient(p) ==
    /\ constructor.pc = "done"
    /\ \/ \E i \in DOMAIN queries, a \in ExecChainArgs :
            Len(queries) < MaxQueries /\ Chain(i, a)
       \/ \E i \in DOMAIN queries : Call(p, i, "execute")
       \/ \E i \in DOMAIN queries, op \in LookupOps : Lookup(p, i, op)
       \/ Return(p)

ConstructNext ==
    \/ \E token \in Tokens : AcquireToken(token)
    \/ AcquireTokenFailure
    \/ \E p \in MainProcs : BootstrapCall(p)
    \/ \E p \in MainProcs : BootstrapReturn(p)
    \/ StoreData
    \/ MakeAnimals
    \/ \E p \in MainProcs : Execution(p)
    \/ \E p \in MainProcs : UseClient(p)

\* a client is constructed and then used
ConstructSpec == NewClient /\ [][ConstructNext]_vars

(***************************************************************************)
(* Cache keys: queries of both classes are chained in every order, and two *)
(* callers build their requests and look them up in the cache.             *)
(***************************************************************************)
MaxKeyQueries == 5

\* the keyword arguments of one chain step
KeyArgs ==
    { << <<"type", StrV("dog")>> >>,
      << <<"breed", ListV(<<"Pug">>)>> >>,
      << <<"breed", ListV(<<"Pug">>)>>, <<"type", StrV("cat")>> >> }

KeyNext ==
    \/ \E i \in DOMAIN queries, a \in KeyArgs :
            Len(queries) < MaxKeyQueries /\ Chain(i, a)
    \/ \E path \in NewQueryPaths :
            Len(queries) < MaxKeyQueries /\ NewQuery(1, path)
    \/ \E p \in Procs, i \in DOMAIN queries : Call(p, i, "execute")
    \/ \E p \in Procs : Build(p)
    \/ \E p \in Procs : CheckCache(p)

\* a synchronous client with a FileCache of the default settings
KeyInit ==
    /\ Init
    /\ ~async_
    /\ HasCache(response_cache)
    /\ response_cache.save_condition = "None"
    /\ response_cache.keep_forever = "default"

\* two callers that chain queries and execute them up to the cache lookup
KeySpec == KeyInit /\ [][KeyNext]_vars

(***************************************************************************)
(* Two executions on one cache directory.  The synchronous execute holds   *)
(* no lock: two threads (or two processes on the same directory) interleave*)
(* at every step, between has_response and get_response in particular,    *)
(* and the clock (time.time()) advances at any moment.                     *)
(***************************************************************************)
\* time passes, wherever the executions stand
Elapse(d) ==
    /\ ticks < MaxTicks
    /\ now' = now + d
    /\ ticks' = ticks + 1
    /\ UNCHANGED <<constructor, response_cache, async_, authorization_headers,
                   static_data, queries, derived, files, calls, pc, frame>>

\* a synchronous client with a cache
RaceInit ==
    /\ Init
    /\ ~async_
    /\ HasCache(response_cache)

RaceNext ==
    \/ \E path \in NewQueryPaths : Len(queries) < MaxQueries /\ NewQuery(1, path)
    \/ \E d \in Advances : Elapse(d)
    \/ \E p \in Procs, i \in DOMAIN queries : Call(p, i, "execute")
    \/ \E p \in Procs : Build(p)
    \/ \E p \in Procs : CheckCache(p)
    \/ \E p \in Procs : ReadCache(p)
    \/ \E p \in Procs : Send(p)
    \/ \E p \in Procs, text \in SuccessBodies : ReceiveSuccess(p, text)
    \/ \E p \in Procs : ProcessResponse(p)
    \/ \E p \in Procs : Return(p)

\* two callers executing at once while the clock runs
RaceSpec == RaceInit /\ [][RaceNext]_vars

(***************************************************************************)
(* Properties                                                              *)
(***************************************************************************)
Frame(p) == frame[p]
QueryOf(p) == queries[frame[p].q]
CacheOf(p) == queries[frame[p].q].response_cache
KeyOf(p) == as_key(CacheOf(p), frame[p].request)
Running(p) == pc[p] # "idle" /\ frame[p].op # "search_with_arguments"

\* the request is one the default keep-forever predicate matches, and the
\* cache was built with that predicate
KeptForever(cache, request) ==
    /\ cache.keep_forever = "default"
    /\ Len(request.path) >= 2
    /\ request.path[1] = "v2"
    /\ request.path[2] = "types"

\* the age, in ticks, of the entry has_response found: measured from the
\* write itself, and from the write truncated to whole seconds
AgeFromWrite(c) == c.at - c.mtime
AgeFromSecond(c) == c.at - (c.mtime \div TicksPerSecond) * TicksPerSecond

\* the save condition accepts the response (no condition: always)
Accepted(cache, response) ==
    cache.save_condition = "None" \/ response.text = <<"animals", "A">>

\* C1: in one call of execute() the token-refresh callback is invoked at
\* most once, whatever the server answers.
C1_AtMostOneRefresh ==
    \A p \in Procs : frame[p].refreshes <= 1

\* C2: one execute() sends at most two requests, and a 401 on the retried
\* request is fatal: the refresh is reached from the first attempt only.
C2_SecondUnauthorizedIsFatal ==
    \A p \in Procs :
        /\ frame[p].sends <= 2
        /\ pc[p] = "refresh" => frame[p].depth = 0

\* C3: when the cache holds a non-expired entry for the request execute()
\* built, the call returns the deserialized entry and sends nothing.
C3_FreshEntryIsReturned ==
    \A p \in Procs :
        LET c == frame[p].checked
        IN  ( /\ Running(p)
              /\ c.ran
              /\ c.present
              /\ \/ KeptForever(CacheOf(p), frame[p].request)
                 \/ AgeFromSecond(c) <= CacheOf(p).time_to_live * TicksPerSecond )
            => /\ pc[p] \in {"read", "done"}
               /\ frame[p].sends = 0
               /\ pc[p] = "done" =>
                    /\ frame[p].exc = NoError
                    /\ frame[p].from_cache
                    /\ frame[p].result =
                        IF frame[p].op = "search"
                        THEN <<"list", AnimalsOf(c.text)>>
                        ELSE deserialize_response_data(c.text)

C3_Witness ==
    \E p \in Procs :
        /\ pc[p] = "done"
        /\ frame[p].op = "execute"
        /\ frame[p].checked.present
        /\ frame[p].from_cache
        /\ frame[p].request.path = BasePath \o AnimalsPath
        /\ frame[p].result = <<"obj", <<"animals", "B">> >>

\* the entry has_response found is one that no keep-forever predicate
\* protects
Expirable(p) ==
    /\ Running(p)
    /\ frame[p].checked.ran
    /\ frame[p].checked.present
    /\ ~KeptForever(CacheOf(p), frame[p].request)

\* what C4 says of the calls that found an expirable entry, the age of the
\* entry being measured by Age and the overwriting being subject to Saved
ExpiryRule(p, age, saved) ==
    LET c == frame[p].checked
        expired == age > CacheOf(p).time_to_live * TicksPerSecond
    IN  /\ c.hit = ~expired
        /\ (expired /\ pc[p] \in {"send", "await", "process", "except"})
                => ~Contains(files, KeyOf(p))
        /\ (pc[p] = "done" /\ frame[p].from_cache) => ~expired
        /\ (pc[p] = "done" /\ frame[p].exc = NoError /\ expired)
                => /\ frame[p].sends >= 1
                   /\ ~frame[p].from_cache
                   /\ saved => /\ Contains(files, KeyOf(p))
                               /\ files[KeyOf(p)].text = frame[p].response.text
                               /\ files[KeyOf(p)].mtime >= frame[p].checked.at
                   /\ ~saved => ~Contains(files, KeyOf(p))

\* C4 (as amended): a cache entry that no keep-forever predicate protects is
\* expired exactly when now - last_written > time_to_live, last_written
\* being the write time truncated to whole seconds: a request 1800 s after
\* the write is answered from the cache, one 4000 s after it is not; the
\* expired entry is deleted, a fresh request is sent and, on success, the
\* entry is written again when the save condition accepts the response.
C4_ExpiryFromTruncatedWrite ==
    \A p \in Procs :
        Expirable(p) =>
            ExpiryRule(p, AgeFromSecond(frame[p].checked),
                       Accepted(CacheOf(p), frame[p].response))

\* C4 as stated: the age is measured from the write itself, and every
\* successful fresh response overwrites the entry.
C4_ExpiryFromWrite ==
    \A p \in Procs :
        Expirable(p) => ExpiryRule(p, AgeFromWrite(frame[p].checked), TRUE)

\* an entry written 4000 s before its test was refetched and overwritten
C4_Witness ==
    \E p \in Procs :
        /\ Expirable(p)
        /\ pc[p] = "done"
        /\ frame[p].exc = NoError
        /\ AgeFromWrite(frame[p].checked) = 4000 * TicksPerSecond
        /\ ~frame[p].checked.hit
        /\ Contains(files, KeyOf(p))
        /\ files[KeyOf(p)].text # frame[p].checked.text

\* C5: an entry for a request the keep-forever predicate matches (by default
\* a path under /v2/types) is never reported expired and never deleted by
\* has_response, whatever its age.
C5_KeepForeverNeverExpires ==
    \A p \in Procs :
        ( /\ Running(p)
          /\ frame[p].checked.ran
          /\ frame[p].checked.present
          /\ KeptForever(CacheOf(p), frame[p].request) )
        => /\ frame[p].checked.hit
           /\ Contains(files, KeyOf(p))
           /\ files[KeyOf(p)].mtime = frame[p].checked.mtime

\* a kept-forever entry older than time_to_live was served
C5_Witness ==
    \E p \in Procs :
        /\ pc[p] = "done"
        /\ frame[p].checked.present
        /\ KeptForever(CacheOf(p), frame[p].request)
        /\ AgeFromSecond(frame[p].checked)
                > CacheOf(p).time_to_live * TicksPerSecond
        /\ frame[p].from_cache

\* {**m1, **m2} on mappings
MapMerge(m1, m2) ==
    [k \in DOMAIN m1 \cup DOMAIN m2 |-> IF k \in DOMAIN m2 THEN m2[k] ELSE m1[k]]

\* C6: q._chain(a)._chain(b) has the parameters of q merged with a, then
\* with b, the later overriding the earlier; q and q._chain(a) keep theirs.
C6_ChainMergesAndPreserves ==
    \A i \in DOMAIN queries :
        derived[i].by = "_chain" =>
            LET j == derived[i].parent
            IN  /\ AsMap(queries[i].params)
                    = MapMerge(AsMap(derived[i].base), AsMap(derived[i].args))
                /\ queries[j].params = derived[i].base
                /\ derived[j].by = "_chain" =>
                    /\ AsMap(queries[i].params)
                        = MapMerge(MapMerge(AsMap(derived[j].base),
                                            AsMap(derived[j].args)),
                                   AsMap(derived[i].args))
                    /\ queries[derived[j].parent].params = derived[j].base

\* a second chain that overrides a key the first chain set, itself
\* overriding... the root has no parameters, so a and b overlap
C6_Witness ==
    \E i \in DOMAIN queries :
        /\ derived[i].by = "_chain"
        /\ derived[derived[i].parent].by = "_chain"
        /\ \E k \in Keys(derived[i].args) \cap Keys(derived[derived[i].parent].args) :
                Get(derived[i].args, k) # Get(derived[derived[i].parent].args, k)

\* the parameters lack location and set distance, or name a breed that is
\* not one of the category's
FailsValidation(q) ==
    /\ q.cls = "AnimalsQuery"
    /\ \/ Get(q.params, "location") = None /\ Get(q.params, "distance") # None
       \/ /\ Get(q.params, "type") # None
          /\ Get(q.params, "breed") # None
          /\ \E i \in DOMAIN Get(q.params, "breed")[2] :
                Lower(Get(q.params, "breed")[2][i])
                    \notin static_data[Get(q.params, "type")[2][1]].breeds

\* C7: when the parameters fail validation, execute() raises the validation
\* error before any send: no cache test, no send, no refresh, no second
\* attempt and no cache write happen in the call.
C7_ValidationFailsBeforeAnySend ==
    \A p \in Procs :
        (Running(p) /\ FailsValidation(QueryOf(p)))
        => /\ pc[p] \in {"build", "done"}
           /\ frame[p].sends = 0
           /\ frame[p].refreshes = 0
           /\ frame[p].depth = 0
           /\ frame[p].writes = 0
           /\ ~frame[p].checked.ran
           /\ pc[p] = "done" =>
                /\ frame[p].exc.type = "ValidationError"
                /\ frame[p].exc.cause \in {"MissingDependency", "InvalidChoice"}

C7_Witness ==
    \E p \in Procs :
        /\ pc[p] = "done"
        /\ FailsValidation(QueryOf(p))
        /\ frame[p].exc.cause = "InvalidChoice"
        /\ HasCache(CacheOf(p))

\* C8: search(limit=250, startPage=1) issues exactly ceil(250/100) = 3 page
\* requests and returns their items.
C8_SearchIssuesThreePages ==
    \A p \in Procs :
        (pc[p] = "done" /\ frame[p].op = "search_with_arguments")
        => /\ frame[p].sends = (250 + MaxLimit - 1) \div MaxLimit
           /\ frame[p].exc = NoError

\* C9: the page requests of a search over several pages are in flight
\* together, and the search returns an item sequence.
C9_SearchPagesConcurrent ==
    \A p \in Procs :
        (pc[p] = "done" /\ frame[p].op = "search_with_arguments")
        => /\ frame[p].sends >= 2
           /\ frame[p].result[1] = "list"

\* C10: a failure of a send other than a 401 status leaves execute() as it
\* is: the refresh is reached on 401 only, and a call that ended in an HTTP
\* error status or a transport failure made no send and no refresh after
\* the failing send, and wrote nothing to the cache.
C10_OtherFailuresAreFatal ==
    \A p \in Procs :
        /\ pc[p] = "refresh" => frame[p].status = 401
        /\ ( /\ pc[p] = "done"
             /\ frame[p].exc.type \in {"HTTPStatusError", "TransportError"} )
           => /\ frame[p].writes = 0
              /\ frame[p].refreshes = frame[p].depth
              /\ frame[p].sends = Inc(frame[p].depth)
              /\ frame[p].result = None
              /\ frame[p].exc.type = "HTTPStatusError" => frame[p].status = 500

C10_Witness ==
    \E p \in Procs :
        /\ pc[p] = "done"
        /\ frame[p].exc.type = "HTTPStatusError"
        /\ frame[p].status = 500
        /\ frame[p].depth = 1
        /\ HasCache(CacheOf(p))

\* C11: a failure of the cache directory never fails a query: no call of
\* execute() ends with the exception of a cache read (the entry missing at
\* read time) or of a cache write.
C11_CacheFailureNeverFailsQuery ==
    \A p \in Procs :
        pc[p] = "done" =>
            frame[p].exc.type \notin {"FileNotFoundError", "OSError"}

\* execute() on an animal query has built its request or failed to
Built(p) ==
    /\ Running(p)
    /\ frame[p].op = "execute"
    /\ QueryOf(p).cls = "AnimalsQuery"
    /\ pc[p] # "build"

\* the raw parameters set no location; they set a distance-based ordering
LocationAbsent(q) == Get(q.params, "location") = None
DistanceSort(q) ==
    Get(q.params, "sort") \in {StrV(SortDistance), StrV(SortReverseDistance)}

\* what C12 says of the executes that built or failed, `distance_set` being
\* the condition on the distance
DependencyRule(p, distance_set) ==
    /\ (LocationAbsent(QueryOf(p)) /\ (distance_set \/ DistanceSort(QueryOf(p))))
        => /\ pc[p] = "done"
           /\ frame[p].exc.type = "ValidationError"
           /\ frame[p].exc.cause = "MissingDependency"
           /\ frame[p].sends = 0
    /\ ~LocationAbsent(QueryOf(p)) => frame[p].exc.cause # "MissingDependency"

TypeSet(q) == Truthy(Get(q.params, "type"))
BadChoice(q, field, member) ==
    /\ Truthy(Get(q.params, field))
    /\ \E i \in DOMAIN Get(q.params, field)[2] :
        \A m \in static_data[Get(q.params, "type")[2][1]][member] :
            Lower(m) # Lower(Get(q.params, field)[2][i])

\* the dependency checks, which run first, pass
DependenciesMet(q) ==
    ~(LocationAbsent(q) /\ (Truthy(Get(q.params, "distance")) \/ DistanceSort(q)))

C14_AtMostOneCacheWrite ==
    \A p \in Procs :
        (Running(p) /\ frame[p].op \in {"execute", "search"}) =>
            LET saved == /\ ~frame[p].from_cache
                         /\ HasCache(CacheOf(p))
                         /\ Accepted(CacheOf(p), frame[p].response)
            IN  /\ pc[p] # "done" => frame[p].writes = 0
                /\ (pc[p] = "done" /\ frame[p].exc # NoError) => frame[p].writes = 0
                /\ (pc[p] = "done" /\ frame[p].exc = NoError) =>
                    /\ frame[p].writes = IF saved THEN 1 ELSE 0
                    /\ saved => /\ Contains(files, KeyOf(p))
                                /\ files[KeyOf(p)] =
                                    [text |-> frame[p].response.text, mtime |-> now]
                    /\ (~frame[p].from_cache /\ HasCache(CacheOf(p)) /\ ~saved)
                        => ~Contains(files, KeyOf(p))

\* a call whose first attempt ended in 401 returned the retried response and
\* wrote it once
C14_Witness ==
    \E p \in Procs :
        /\ pc[p] = "done"
        /\ frame[p].exc = NoError
        /\ frame[p].depth = 1
        /\ frame[p].sends = 2
        /\ frame[p].writes = 1
        /\ CacheOf(p).save_condition = "only_A"

\* C15: breeds() and colors() on a query with a category chained return that
\* category's set of the store, and on a query without one fail with
\* MissingAnimalType; neither builds a request, tests the cache or sends.
C15_LookupsReadTheStore ==
    \A p \in Procs :
        (pc[p] = "done" /\ frame[p].op \in LookupOps) =>
            LET type_ == Get(QueryOf(p).params, "type")
            IN  /\ frame[p].sends = 0
                /\ frame[p].refreshes = 0
                /\ ~frame[p].checked.ran
                /\ frame[p].request = NoRequest
                /\ IF type_ # None
                   THEN /\ frame[p].exc = NoError
                        /\ frame[p].result =
                            <<"set", IF frame[p].op = "breeds"
                                     THEN static_data[type_[2][1]].breeds
                                     ELSE static_data[type_[2][1]].colors>>
                   ELSE /\ frame[p].exc.type = "MissingAnimalType"
                        /\ frame[p].result = None

\* colors() after cats: the two colors of the cat
C15_Witness ==
    \E p \in Procs :
        /\ pc[p] = "done"
        /\ frame[p].op = "colors"
        /\ Get(QueryOf(p).params, "type") = StrV("cat")
        /\ frame[p].exc = NoError
        /\ frame[p].result = <<"set", {"black", "white"}>>

\* the value a field has after validation: the one given, or the default
Validated(q, k) ==
    IF k \in Keys(q.params) THEN Get(q.params, k) ELSE FieldDefault(k)

\* `s` is the elements of `l` in order with a comma between neighbours
CommaJoined(l, s) ==
    /\ Len(s) = IF l = <<>> THEN 0 ELSE 2 * Len(l) - 1
    /\ \A i \in DOMAIN s :
        s[i] = IF i % 2 = 1 THEN l[(i + 1) \div 2] ELSE ","

\* C18: in the parameters of a built request every list-valued field is the
\* comma-joined string of its elements in order, every other field has its
\* value unchanged, and a field whose value is None is absent.
C18_WireParameters ==
    \A p \in Procs :
        (Built(p) /\ pc[p] # "done") =>
            LET q == QueryOf(p)
                wire == frame[p].request.params
            IN  /\ Keys(wire) \subseteq {FieldOrder[i] : i \in DOMAIN FieldOrder}
                /\ Len(wire) = Cardinality(Keys(wire))
                /\ \A i \in DOMAIN FieldOrder :
                    LET k == FieldOrder[i]
                        v == Validated(q, k)
                    IN  IF v = None THEN k \notin Keys(wire)
                        ELSE /\ k \in Keys(wire)
                             /\ IF IsList(v)
                                THEN /\ Get(wire, k)[1] = "str"
                                     /\ CommaJoined(v[2], Get(wire, k)[2])
                                ELSE Get(wire, k) = v

\* a request with age=baby,young, name=Rex, an empty breed and no color
C18_Witness ==
    \E p \in Procs :
        /\ Built(p)
        /\ pc[p] = "await"
        /\ Get(frame[p].request.params, "age") = <<"str", <<"baby", ",", "young">> >>
        /\ Get(frame[p].request.params, "name") = StrV("Rex")
        /\ Get(frame[p].request.params, "limit") = IntV(MaxLimit)
        /\ "color" \notin Keys(frame[p].request.params)
        /\ "location" \in Keys(frame[p].request.params)

\* C17: a query derived by _chain (the category selectors, filter, limit,
\* sort_by and page are calls of it) or by _new_query has the execution mode,
\* the client factory, the refresh callback, the response cache and the
\* static data of the query it was derived from.
C17_DerivedQueryInherits ==
    \A i \in DOMAIN queries :
        derived[i].parent # 0 =>
            LET q == queries[i]
                from == queries[derived[i].parent]
            IN  /\ q.async = from.async
                /\ q.get_client = from.get_client
                /\ q.refresh_access_token = from.refresh_access_token
                /\ q.response_cache = from.response_cache
                /\ q.static_data = from.static_data
                /\ q.async = async_
                /\ q.get_client = IF q.async THEN "client._async_client"
                                  ELSE "client._client"

\* an asynchronous client: a chained query of a query made by _new_query
C17_Witness ==
    \E i \in DOMAIN queries :
        /\ derived[i].by = "_chain"
        /\ derived[derived[i].parent].by = "_new_query"
        /\ queries[i].async
        /\ HasCache(queries[i].response_cache)

\* C19: execute() is a loop of at most two attempts: whatever the server
\* answers, a 401 to every request included, a call is in its first attempt
\* or in its one retry, and no attempt follows the retry.
C19_TwoAttemptsThenTerminal ==
    \A p \in Procs : frame[p].depth <= 1

\* C20: after a 401 the token is refreshed before execute() runs again, and
\* the request of the new attempt is built by a client made after the
\* refresh: it carries the authorization headers the refresh installed, not
\* those of the failed attempt.
C20_RetryCarriesRefreshedToken ==
    \A p \in Procs :
        (Running(p) /\ frame[p].depth >= 1) =>
            /\ frame[p].refreshes >= 1
            /\ pc[p] \in {"check", "read", "send", "await", "process", "except"}
                => /\ frame[p].client = authorization_headers
                   /\ frame[p].request.headers = authorization_headers

\* the refresh installed another token than the one of the first attempt,
\* and the retried request is in flight
C20_Witness ==
    \E p \in Procs :
        /\ pc[p] = "await"
        /\ frame[p].depth = 1
        /\ frame[p].sends = 2
        /\ authorization_headers = "tokB"
        /\ frame[p].request.headers = "tokB"

\* the store __init__ is to leave: each category's own documents, lowercased
LowercasedStore(sd) ==
    /\ DOMAIN sd = Categories
    /\ \A c \in Categories :
        /\ sd[c].breeds = {Lower(BreedsOf(BreedsText(c))[i].name) :
                             i \in DOMAIN BreedsOf(BreedsText(c))}
        /\ sd[c].coats = {Lower(TypeOf(TypesText(c)).coats[i]) :
                             i \in DOMAIN TypeOf(TypesText(c)).coats}
        /\ sd[c].colors = {Lower(TypeOf(TypesText(c)).colors[i]) :
                             i \in DOMAIN TypeOf(TypesText(c)).colors}
        /\ sd[c].genders = {Lower(TypeOf(TypesText(c)).genders[i]) :
                             i \in DOMAIN TypeOf(TypesText(c)).genders}

\* the animals query is there for the caller
AnimalsAvailable ==
    \E i \in DOMAIN queries : queries[i].cls = "AnimalsQuery"

\* C16 as the claim has it: by the time the store is assigned, exactly one
\* type-info request and one breeds request per category have been issued.
C16_OneRequestPerEndpoint ==
    constructor.pc = "store" =>
        constructor.sends = 2 * Cardinality(Categories)

\* C16, amended: the store is assigned exactly once, at construction, from
\* one type-info query and one breeds query executed per category (each may
\* be answered by the cache or sent more than once); no query is executed
\* before the first token is held, the animals query exists only once the
\* store is assigned, and no later operation changes the store.
C16_StorePopulatedOnceAtConstruction ==
    /\ [](/\ constructor.pc = "token" =>
                /\ authorization_headers = ""
                /\ constructor.executes = 0
          /\ constructor.pc \notin {"token", "failed"} => authorization_headers # ""
          /\ \A p \in Procs : frame[p].request # NoRequest => frame[p].client # ""
          /\ constructor.pc \in {"token", "types", "types_run", "breeds",
                                 "breeds_run", "store", "failed"} =>
                /\ static_data = <<>>
                /\ ~AnimalsAvailable
          /\ constructor.pc = "store" =>
                /\ constructor.executes = 2 * Cardinality(Categories)
                /\ LowercasedStore(constructor.data)
          /\ constructor.pc \in {"animals", "done"} => LowercasedStore(static_data)
          /\ AnimalsAvailable => constructor.pc = "done")
    /\ [][static_data' # static_data =>
            /\ constructor.pc = "store"
            /\ static_data = <<>>
            /\ LowercasedStore(static_data')]_vars

\* the client is constructed from a warm cache directory without a single
\* request, and breeds() on a derived dog query has read the store
C16_Witness ==
    /\ constructor.pc = "done"
    /\ LowercasedStore(static_data)
    /\ \E p \in Procs :
        /\ pc[p] = "done"
        /\ frame[p].op = "breeds"
        /\ frame[p].result = <<"set", {"pug"}>>

\* the execution has built its request
HasRequest(p) == pc[p] # "idle" /\ frame[p].request # NoRequest

\* the two queries have the same path and equal parameter maps
SameParameterMap(q1, q2) ==
    q1.path = q2.path /\ AsMap(q1.params) = AsMap(q2.params)

\* C21 as the claim has it: two queries on the same path with equal
\* parameter maps have the same cache key whatever the order of chaining,
\* and two requests that differ in path or in a parameter value have
\* different keys.
C21_KeyOfSortedParameters ==
    \A p1, p2 \in Procs :
        (HasRequest(p1) /\ HasRequest(p2)) =>
            /\ SameParameterMap(QueryOf(p1), QueryOf(p2)) => KeyOf(p1) = KeyOf(p2)
            /\ (\/ frame[p1].request.path # frame[p2].request.path
                \/ AsMap(frame[p1].request.params) # AsMap(frame[p2].request.params))
                    => KeyOf(p1) # KeyOf(p2)

\* C21, amended: the cache key is a fingerprint of the raw path of the
\* request, i.e. of its path and of its parameters in the order the request
\* carries them: two requests have the same key exactly when these are the
\* same.  A query with a parameter model (AnimalsQuery) sends its parameters
\* in the order the model declares them, so two such queries with equal
\* parameter maps have the same key whatever the order of chaining.
C21_KeyOfRawPath ==
    \A p1, p2 \in Procs :
        (HasRequest(p1) /\ HasRequest(p2)) =>
            /\ KeyOf(p1) = KeyOf(p2) <=>
                    /\ frame[p1].request.path = frame[p2].request.path
                    /\ frame[p1].request.params = frame[p2].request.params
            /\ (/\ QueryOf(p1).cls = "AnimalsQuery"
                /\ QueryOf(p2).cls = "AnimalsQuery"
                /\ SameParameterMap(QueryOf(p1), QueryOf(p2)))
                    => KeyOf(p1) = KeyOf(p2)

\* two animals queries chained in opposite orders are looked up under one key
C21_Witness ==
    \E p1, p2 \in Procs :
        /\ pc[p1] \in {"read", "send"}
        /\ pc[p2] \in {"read", "send"}
        /\ QueryOf(p1).cls = "AnimalsQuery"
        /\ QueryOf(p1).params = << <<"type", StrV("dog")>>, <<"breed", ListV(<<"Pug">>)>> >>
        /\ QueryOf(p2).params = << <<"breed", ListV(<<"Pug">>)>>, <<"type", StrV("dog")>> >>
        /\ QueryOf(p2).cls = "AnimalsQuery"
        /\ KeyOf(p1) = KeyOf(p2)

\* the query sets a category and a breed or color that is none of its values
InvalidForCategory(q) ==
    TypeSet(q) /\ (BadChoice(q, "breed", "breeds") \/ BadChoice(q, "color", "colors"))

\* what C22 says of the executes that were validated, `distance_set` being
\* the condition on the distance
DependencyFirst(p, distance_set) ==
    (/\ LocationAbsent(QueryOf(p))
     /\ distance_set \/ DistanceSort(QueryOf(p))
     /\ InvalidForCategory(QueryOf(p)))
        => /\ pc[p] = "done"
           /\ frame[p].exc.type = "ValidationError"
           /\ frame[p].exc.cause = "MissingDependency"

\* C22 as the claim has it: a parameter set that lacks location while
\* setting distance (or a distance-based sort) and holds a breed or color
\* invalid for its category fails with MissingDependency, not InvalidChoice.
C22_DependencyBeforeChoice ==
    \A p \in Procs :
        Built(p) => DependencyFirst(p, Get(QueryOf(p).params, "distance") # None)

\* C22, amended: the same with the distance set to a non-zero value; with a
\* distance of 0 and no distance-based sort the dependency check passes, and
\* the invalid breed or color is reported, as InvalidChoice.
C22_TruthyDependencyBeforeChoice ==
    \A p \in Procs :
        Built(p) =>
            /\ DependencyFirst(p, Truthy(Get(QueryOf(p).params, "distance")))
            /\ (/\ LocationAbsent(QueryOf(p))
                /\ Get(QueryOf(p).params, "distance") = IntV(0)
                /\ ~DistanceSort(QueryOf(p))
                /\ InvalidForCategory(QueryOf(p)))
                    => /\ pc[p] = "done"
                       /\ frame[p].exc.cause = "InvalidChoice"

\* a cat query sorted by -distance, without location, asks for the breed
\* Pug, which no cat has: MissingDependency is what the caller gets
C22_Witness ==
    \E p \in Procs :
        /\ Built(p)
        /\ pc[p] = "done"
        /\ LocationAbsent(QueryOf(p))
        /\ DistanceSort(QueryOf(p))
        /\ Get(QueryOf(p).params, "type") = StrV("cat")
        /\ Get(QueryOf(p).params, "breed") = ListV(<<"Pug">>)
        /\ InvalidForCategory(QueryOf(p))
        /\ frame[p].exc.cause = "MissingDependency"

\* C23: every entry of the response cache holds the body of a response
\* whose status was a success; the body of a 401 or of another error
\* response is never written, and an execute() answered from the cache
\* returns the document of a success body.
C23_OnlySuccessBodiesCached ==
    /\ \A k \in DOMAIN files :
        /\ files[k].text \in SuccessBodies
        /\ files[k].text # ErrorText
    /\ \A p \in Procs :
        /\ (pc[p] = "except" /\ IsErrorStatus(frame[p].status)) =>
                frame[p].writes = 0
        /\ (pc[p] = "done" /\ frame[p].from_cache) =>
                /\ frame[p].exc = NoError
                /\ \E text \in SuccessTexts(frame[p].request.path) :
                        frame[p].result = Returned(frame[p].op, text)

\* an execute() of an animals query is answered from the cache: the entry is
\* the body an earlier execute() stored after a success
C23_Witness ==
    \E p \in Procs :
        /\ pc[p] = "done"
        /\ frame[p].from_cache
        /\ frame[p].request.path = BasePath \o AnimalsPath
        /\ files[KeyOf(p)].text \in AnimalsTexts
        /\ frame[p].result = Returned(frame[p].op, files[KeyOf(p)].text)

\* C24: in every interleaving of two executions on one cache, an entry that
\* has_response reported present is still there when the same execution
\* reads it, and that execution returns the cached body without an error.
C24_CheckedEntryStillPresent ==
    \A p \in Procs :
        (Running(p) /\ frame[p].checked.ran /\ frame[p].checked.hit) =>
            /\ pc[p] = "read" => Contains(files, KeyOf(p))
            /\ pc[p] = "done" =>
                /\ frame[p].exc = NoError
                /\ frame[p].from_cache
====
